---- MODULE Spec2Model ----
(***************************************************************************)
(* torch/fx/node.py: the Node record of the FX graph IR, its def/use       *)
(* bookkeeping (users), its intrasequence links and map_arg.               *)
(*                                                                         *)
(* Nodes are identified by their creation index 1, 2, ...; every field of  *)
(* the Python object is one sequence indexed by that identity.  An         *)
(* Argument is a tagged record:                                            *)
(*   [k |-> "prim", v]   a base-type leaf (None, 3, ...), v its text       *)
(*   [k |-> "node", n]   a Node reference                                  *)
(*   [k |-> "tuple", e] / [k |-> "list", e]   a sequence of Arguments      *)
(*   [k |-> "dict", keys, vals]   a mapping, in insertion order            *)
(*   [k |-> "slice", start, stop, step]                                    *)
(* users is an insertion-ordered dict used as a set: a duplicate-free      *)
(* sequence of node identities.                                            *)
(***************************************************************************)
EXTENDS Integers, Sequences, FiniteSets, TLC

VARIABLES graph, name, op, target, args, kwargs, users, type, prev, next,
          erased, last

vars == <<graph, name, op, target, args, kwargs, users, type, prev, next,
          erased, last>>

\* ---------------------------------------------------------------- bounds
\* nodes constructed
MaxNodes == 3

\* def/use edges (pairs of a node and one of its defs) the inputs may build
MaxUses == 3

\* nodes constructed when every op tag and target kind is tried
MaxCtorNodes == 2

\* nodes constructed when the intrasequence links are exercised
MaxListNodes == 3

NodeIds == 1..MaxNodes

\* ------------------------------------------------------ Argument values
Prim(v) == [k |-> "prim", v |-> v]
NoneArg == Prim("None")
Nd(n) == [k |-> "node", n |-> n]
Tup(e) == [k |-> "tuple", e |-> e]
Lst(e) == [k |-> "list", e |-> e]
Dict(keys, vals) == [k |-> "dict", keys |-> keys, vals |-> vals]
Slice(a, b, c) == [k |-> "slice", start |-> a, stop |-> b, step |-> c]

Range(s) == {s[i] : i \in DOMAIN s}

RECURSIVE Concat(_)
Concat(ss) == IF ss = <<>> THEN <<>> ELSE Head(ss) \o Concat(Tail(ss))

\* ------------------------------------------------------------- map_arg
\* map_arg rebuilding every sequence as a tuple instead of type(a)(...)
RECURSIVE map_arg_as_tuple(_, _)
map_arg_as_tuple(a, fn) ==
    CASE a.k \in {"tuple", "list"} ->
            [k |-> "tuple", e |-> [i \in 1..Len(a.e) |-> map_arg_as_tuple(a.e[i], fn)]]
      [] a.k = "dict" ->
            [k |-> "dict", keys |-> a.keys,
             vals |-> [i \in 1..Len(a.vals) |-> map_arg_as_tuple(a.vals[i], fn)]]
      [] a.k = "slice" ->
            [k |-> "slice", start |-> map_arg_as_tuple(a.start, fn),
             stop |-> map_arg_as_tuple(a.stop, fn),
             step |-> map_arg_as_tuple(a.step, fn)]
      [] a.k = "node" -> fn[a.n]
      [] OTHER -> a

\* map_arg without the branch for slices: a slice is returned as it is
RECURSIVE map_arg_no_slice(_, _)
map_arg_no_slice(a, fn) ==
    CASE a.k \in {"tuple", "list"} ->
            [k |-> a.k, e |-> [i \in 1..Len(a.e) |-> map_arg_no_slice(a.e[i], fn)]]
      [] a.k = "dict" ->
            [k |-> "dict", keys |-> a.keys,
             vals |-> [i \in 1..Len(a.vals) |-> map_arg_no_slice(a.vals[i], fn)]]
      [] a.k = "node" -> fn[a.n]
      [] OTHER -> a

\* map_arg building slice(start, stop) and leaving the step out
RECURSIVE map_arg_slice_no_step(_, _)
map_arg_slice_no_step(a, fn) ==
    CASE a.k \in {"tuple", "list"} ->
            [k |-> a.k, e |-> [i \in 1..Len(a.e) |-> map_arg_slice_no_step(a.e[i], fn)]]
      [] a.k = "dict" ->
            [k |-> "dict", keys |-> a.keys,
             vals |-> [i \in 1..Len(a.vals) |-> map_arg_slice_no_step(a.vals[i], fn)]]
      [] a.k = "slice" ->
            [k |-> "slice", start |-> map_arg_slice_no_step(a.start, fn),
             stop |-> map_arg_slice_no_step(a.stop, fn), step |-> NoneArg]
      [] a.k = "node" -> fn[a.n]
      [] OTHER -> a

\* The tree map_arg returns; fn is a function from node identity to Argument.
RECURSIVE map_arg(_, _)
map_arg(a, fn) ==
    CASE a.k \in {"tuple", "list"} ->
            [k |-> a.k, e |-> [i \in 1..Len(a.e) |-> map_arg(a.e[i], fn)]]
      [] a.k = "dict" ->
            [k |-> "dict", keys |-> a.keys,
             vals |-> [i \in 1..Len(a.vals) |-> map_arg(a.vals[i], fn)]]
      [] a.k = "slice" ->
            [k |-> "slice", start |-> map_arg(a.start, fn),
             stop |-> map_arg(a.stop, fn), step |-> map_arg(a.step, fn)]
      [] a.k = "node" -> fn[a.n]
      [] OTHER -> a

\* map_arg storing the mapped elements back into its input
InputRewritten(a, fn) == map_arg(a, fn)

\* The object passed to map_arg as it is after the call: every branch builds
\* a new container (type(a)(...), a dict display, slice(...)) and none assigns
\* into a.
InputAfter(a, fn) == a

\* s without its repeated elements
RECURSIVE Dedup(_)
Dedup(s) ==
    IF s = <<>> THEN <<>>
    ELSE LET d == Dedup(SubSeq(s, 1, Len(s) - 1))
         IN  IF s[Len(s)] \in Range(d) THEN d ELSE Append(d, s[Len(s)])

\* map_arg calling fn once per distinct node
RECURSIVE map_arg_calls_once(_)
map_arg_calls_once(a) ==
    CASE a.k \in {"tuple", "list"} ->
            Dedup(Concat([i \in 1..Len(a.e) |-> map_arg_calls_once(a.e[i])]))
      [] a.k = "dict" ->
            Dedup(Concat([i \in 1..Len(a.vals) |-> map_arg_calls_once(a.vals[i])]))
      [] a.k = "slice" ->
            Dedup(map_arg_calls_once(a.start) \o map_arg_calls_once(a.stop)
                    \o map_arg_calls_once(a.step))
      [] a.k = "node" -> <<a.n>>
      [] OTHER -> <<>>

\* The nodes map_arg passes to fn, in the order of the calls.
RECURSIVE map_arg_calls(_)
map_arg_calls(a) ==
    CASE a.k \in {"tuple", "list"} ->
            Concat([i \in 1..Len(a.e) |-> map_arg_calls(a.e[i])])
      [] a.k = "dict" ->
            Concat([i \in 1..Len(a.vals) |-> map_arg_calls(a.vals[i])])
      [] a.k = "slice" ->
            map_arg_calls(a.start) \o map_arg_calls(a.stop) \o map_arg_calls(a.step)
      [] a.k = "node" -> <<a.n>>
      [] OTHER -> <<>>

\* ------------------------------------------------- dict as an ordered set
\* pop that leaves the key in place
pop_keeps(u, x) == u

\* users.pop(x) on a dict that holds x
pop(u, x) == SelectSeq(u, LAMBDA y : y # x)

\* users = {x: None} in place of users.setdefault(x)
setdefault_resets(u, x) == <<x>>

\* setdefault that inserts nothing
setdefault_ignores(u, x) == u

\* setdefault that puts a new key in front of the others
setdefault_first(u, x) == IF x \in Range(u) THEN u ELSE <<x>> \o u

\* users.setdefault(x)
setdefault(u, x) == IF x \in Range(u) THEN u ELSE Append(u, x)

\* ------------------------------------------------------------ the heap
\* The part of the object graph the argument operations read and write:
\* h.args, h.kwargs, h.users indexed by node, h.err the exception raised ("" none).

\* _collect_all_defs walking args only
collect_args_defs(h, self) == {h.args[self].e[i].n : i \in
    {j \in 1..Len(h.args[self].e) : h.args[self].e[j].k = "node"}}

\* Node._collect_all_defs
_collect_all_defs(h, self) ==
    Range(map_arg_calls(h.args[self])) \cup Range(map_arg_calls(h.kwargs[self]))

\* the removal loop emptying the users of each def it visits
RemoveLoopClears(h, ds, self) ==
    {[h EXCEPT !.users = [d \in DOMAIN h.users |->
        IF d \in ds THEN <<>> ELSE h.users[d]]]}

\* the removal loop popping self from every users dict that holds it
RemoveLoopEverywhere(h, ds, self) ==
    {[h EXCEPT !.users = [d \in DOMAIN h.users |-> pop(h.users[d], self)]]}

\* for to_remove in old_defs - new_defs: to_remove.users.pop(self)
\* The loop runs in the iteration order of a set; pop raises KeyError on the
\* first node whose users lacks self, with the nodes before it already done.
RemoveLoop(h, ds, self) ==
    LET missing == {d \in ds : self \notin Range(h.users[d])}
    IN  IF missing = {}
        THEN {[h EXCEPT !.users = [d \in DOMAIN h.users |->
                    IF d \in ds THEN pop(h.users[d], self) ELSE h.users[d]]]}
        ELSE {[h EXCEPT !.users = [d \in DOMAIN h.users |->
                    IF d \in done THEN pop(h.users[d], self) ELSE h.users[d]],
                        !.err = "KeyError"] : done \in SUBSET (ds \ missing)}

\* the add loop registering self in its own users as well
AddLoopAndSelf(h, ds, self) ==
    [h EXCEPT !.users = [d \in DOMAIN h.users |->
        IF d \in ds \cup {self} THEN h.users[d] \o
            (IF self \in {h.users[d][i] : i \in DOMAIN h.users[d]}
             THEN <<>> ELSE <<self>>)
        ELSE h.users[d]]]

\* for to_add in new_defs - old_defs: to_add.users.setdefault(self)
AddLoop(h, ds, self) ==
    [h EXCEPT !.users = [d \in DOMAIN h.users |->
        IF d \in ds THEN setdefault(h.users[d], self) ELSE h.users[d]]]

\* _update_args_kwargs without the set differences: self is popped from
\* every old def and added again to every new one
update_without_diff(h, self, new_args, new_kwargs) ==
    LET old_defs == _collect_all_defs(h, self)
        h1 == [h EXCEPT !.args[self] = new_args, !.kwargs[self] = new_kwargs]
        new_defs == _collect_all_defs(h1, self)
    IN  {IF h2.err = "" THEN AddLoop(h2, new_defs, self) ELSE h2 :
            h2 \in RemoveLoop(h1, old_defs, self)}

\* _update_args_kwargs popping self from every old def, kept ones included
update_removes_old(h, self, new_args, new_kwargs) ==
    LET old_defs == _collect_all_defs(h, self)
        h1 == [h EXCEPT !.args[self] = new_args, !.kwargs[self] = new_kwargs]
        new_defs == _collect_all_defs(h1, self)
    IN  {IF h2.err = "" THEN AddLoop(h2, new_defs \ old_defs, self) ELSE h2 :
            h2 \in RemoveLoop(h1, old_defs, self)}

\* Node._update_args_kwargs: the set of heaps the call can leave.
_update_args_kwargs(h, self, new_args, new_kwargs) ==
    LET old_defs == _collect_all_defs(h, self)
        h1 == [h EXCEPT !.args[self] = new_args, !.kwargs[self] = new_kwargs]
        new_defs == _collect_all_defs(h1, self)
    IN  {IF h2.err = "" THEN AddLoop(h2, new_defs \ old_defs, self) ELSE h2 :
            h2 \in RemoveLoop(h1, old_defs \ new_defs, self)}

\* Node.args setter
args_setter(h, self, a) == _update_args_kwargs(h, self, a, h.kwargs[self])

\* a kwargs setter that stores the dict without _update_args_kwargs
kwargs_setter_stores(h, self, k) == {[h EXCEPT !.kwargs[self] = k]}

\* Node.kwargs setter
kwargs_setter(h, self, k) == _update_args_kwargs(h, self, h.args[self], k)

\* maybe_replace_node with the comparison never true
never_replace_node(self, replace_with) == [n \in NodeIds |-> Nd(n)]

\* maybe_replace_node returning replace_with for every node
replace_every_node(self, replace_with) == [n \in NodeIds |-> Nd(replace_with)]

\* Node.replace_all_uses_with: the set of heaps the call can leave; h.ret is
\* the list returned when h.err = "".
maybe_replace_node(self, replace_with) ==
    [n \in NodeIds |-> IF n = self THEN Nd(replace_with) ELSE Nd(n)]

RewriteUse(h, use_node, self, replace_with) ==
    LET new_args == map_arg(h.args[use_node], maybe_replace_node(self, replace_with))
        new_kwargs == map_arg(h.kwargs[use_node], maybe_replace_node(self, replace_with))
    IN  IF new_args.k # "tuple" \/ new_kwargs.k # "dict"
        THEN {[h EXCEPT !.err = "AssertionError"]}
        ELSE _update_args_kwargs(h, use_node, new_args, new_kwargs)

RECURSIVE RewriteLoop(_, _, _, _, _)
RewriteLoop(hs, to_process, i, self, replace_with) ==
    IF i > Len(to_process) THEN hs
    ELSE RewriteLoop(
            UNION {IF h.err = "" THEN RewriteUse(h, to_process[i], self, replace_with)
                   ELSE {h} : h \in hs},
            to_process, i + 1, self, replace_with)

\* replace_all_uses_with returning list(self.users) read after the loop
replace_returns_live(h, self, replace_with) ==
    {IF h2.err # "" THEN h2
     ELSE IF Len(h2.users[self]) # 0 THEN [h2 EXCEPT !.err = "AssertionError"]
     ELSE [h2 EXCEPT !.ret = h2.users[self]] :
        h2 \in RewriteLoop({h}, h.users[self], 1, self, replace_with)}

\* replace_all_uses_with without the assertion of line 149
replace_without_assert(h, self, replace_with) ==
    {IF h2.err # "" THEN h2 ELSE [h2 EXCEPT !.ret = h.users[self]] :
        h2 \in RewriteLoop({h}, h.users[self], 1, self, replace_with)}

replace_all_uses_with(h, self, replace_with) ==
    LET to_process == h.users[self]
    IN  {IF h2.err # "" THEN h2
         ELSE IF Len(h2.users[self]) # 0 THEN [h2 EXCEPT !.err = "AssertionError"]
         ELSE [h2 EXCEPT !.ret = to_process] :
            h2 \in RewriteLoop({h}, to_process, 1, self, replace_with)}

\* ------------------------------------------------------------- inputs
ValidOps == {"placeholder", "call_method", "call_module", "call_function",
             "get_attr", "output", "root"}

\* A target is a callable or a string.
StrTarget == [isstr |-> TRUE, v |-> "add"]
FnTarget == [isstr |-> FALSE, v |-> "add"]

\* every op tag and one that is none, with either kind of target
AllCtorInputs == (ValidOps \cup {"bogus"}) \X {StrTarget, FnTarget}

\* (op, target) pairs handed to the constructor
CtorInputs == {<<"call_function", FnTarget>>, <<"call_method", FnTarget>>,
               <<"bogus", StrTarget>>}

Names == <<"x", "y", "z", "w", "v", "u">>

EmptyArgs == Tup(<<>>)
EmptyKwargs == Dict(<<>>, <<>>)

\* args values over the existing nodes E: () and (a, [a, 3])
ArgsInputs(E) ==
    {EmptyArgs} \cup {Tup(<<Nd(a), Lst(<<Nd(a), Prim("3")>>)>>) : a \in E}

\* kwargs values over the existing nodes E: {} and
\* {"k": slice(None, b, 3), "j": {"i": b}}
KwargsInputs(E) ==
    {EmptyKwargs} \cup
    {Dict(<<"k", "j">>, <<Slice(NoneArg, Nd(b), Prim("3")),
                          Dict(<<"i">>, <<Nd(b)>>)>>) : b \in E}

\* ------------------------------------------------------------- state
Existing == 1..Len(args)

Heap == [args |-> args, kwargs |-> kwargs, users |-> users, err |-> "", ret |-> <<>>]

\* The number of def/use edges of heap h: the defs of every node, counted.
RECURSIVE UsesUpTo(_, _)
UsesUpTo(h, n) ==
    IF n = 0 THEN 0
    ELSE Cardinality(_collect_all_defs(h, n)) + UsesUpTo(h, n - 1)

Uses(h) == UsesUpTo(h, Len(h.args))

\* The call that has just ended: what it was, what it was given, how it ended
\* (err, ret) and the heap it started from (args, kwargs, users).
Call(opname, self, with, a, k, o, t, h) ==
    [op |-> opname, self |-> self, with |-> with, a |-> a, k |-> k, o |-> o,
     t |-> t, err |-> h.err, ret |-> h.ret,
     args |-> args, kwargs |-> kwargs, users |-> users,
     prev |-> prev, next |-> next, fn |-> <<>>, calls |-> <<>>,
     after |-> EmptyArgs]

\* No call has ended that the caller has not yet taken the result of.
Idle ==
    [op |-> "idle", self |-> 0, with |-> 0, a |-> EmptyArgs, k |-> EmptyKwargs,
     o |-> "", t |-> StrTarget, err |-> "", ret |-> <<>>,
     args |-> <<>>, kwargs |-> <<>>, users |-> <<>>,
     prev |-> <<>>, next |-> <<>>, fn |-> <<>>, calls |-> <<>>,
     after |-> EmptyArgs]

Init ==
    /\ graph = <<>> /\ name = <<>> /\ op = <<>> /\ target = <<>>
    /\ args = <<>> /\ kwargs = <<>> /\ users = <<>> /\ type = <<>>
    /\ prev = <<>> /\ next = <<>> /\ erased = <<>>
    /\ last = Idle

\* the constructor without the isinstance(target, str) assertion
CtorAcceptsAnyTarget(o, t) == o \in ValidOps

\* Node.__init__ passes both assertions
CtorAccepts(o, t) ==
    /\ o \in ValidOps
    /\ (o \in {"call_method", "call_module"} => t.isstr)

\* Node.__init__ linking the new node behind the node built before it
NodeInitAttached(g, nm, o, t, a, k, ty) ==
    LET self == Len(args) + 1
        h0 == [Heap EXCEPT !.args = Append(args, EmptyArgs),
                           !.kwargs = Append(kwargs, EmptyKwargs)]
    IN  /\ last = Idle
        /\ CtorAccepts(o, t)
        /\ \E h1 \in args_setter(h0, self, a) :
             \E h2 \in (IF h1.err = "" THEN kwargs_setter(h1, self, k) ELSE {h1}) :
                /\ Uses(h2) <= MaxUses
                /\ IF h2.err = ""
                   THEN /\ graph' = Append(graph, g)
                        /\ name' = Append(name, nm)
                        /\ op' = Append(op, o)
                        /\ target' = Append(target, t)
                        /\ args' = h2.args
                        /\ kwargs' = h2.kwargs
                        /\ users' = Append(h2.users, <<>>)
                        /\ type' = Append(type, ty)
                        /\ prev' = Append(prev, IF self > 1 THEN self - 1 ELSE self)
                        /\ next' = Append(next, self)
                        /\ erased' = Append(erased, FALSE)
                   ELSE /\ users' = h2.users
                        /\ UNCHANGED <<graph, name, op, target, args, kwargs, type,
                                       prev, next, erased>>
                /\ last' = Call("init_node", self, 0, a, k, o, t, h2)

\* Node.__init__(graph, name, op, target, args, kwargs, type)
NodeInit(g, nm, o, t, a, k, ty) ==
    LET self == Len(args) + 1
        h0 == [Heap EXCEPT !.args = Append(args, EmptyArgs),
                           !.kwargs = Append(kwargs, EmptyKwargs)]
    IN  /\ last = Idle
        /\ CtorAccepts(o, t)
        /\ \E h1 \in args_setter(h0, self, a) :
             \E h2 \in (IF h1.err = "" THEN kwargs_setter(h1, self, k) ELSE {h1}) :
                /\ Uses(h2) <= MaxUses
                /\ IF h2.err = ""
                   THEN /\ graph' = Append(graph, g)
                        /\ name' = Append(name, nm)
                        /\ op' = Append(op, o)
                        /\ target' = Append(target, t)
                        /\ args' = h2.args
                        /\ kwargs' = h2.kwargs
                        /\ users' = Append(h2.users, <<>>)
                        /\ type' = Append(type, ty)
                        /\ prev' = Append(prev, self)
                        /\ next' = Append(next, self)
                        /\ erased' = Append(erased, FALSE)
                   ELSE /\ users' = h2.users
                        /\ UNCHANGED <<graph, name, op, target, args, kwargs, type,
                                       prev, next, erased>>
                /\ last' = Call("init_node", self, 0, a, k, o, t, h2)

\* Node.__init__ stopped by one of its assertions (lines 28 and 31)
NodeInitFails(g, nm, o, t, a, k, ty) ==
    /\ last = Idle
    /\ ~CtorAccepts(o, t)
    /\ last' = Call("init_node", Len(args) + 1, 0, a, k, o, t,
                    [Heap EXCEPT !.err = "AssertionError"])
    /\ UNCHANGED <<graph, name, op, target, args, kwargs, users, type, prev, next,
                   erased>>

Construct ==
    /\ Len(args) < MaxNodes
    /\ \E ot \in CtorInputs, a \in ArgsInputs(Existing), k \in KwargsInputs(Existing) :
        NodeInit("g", Names[Len(args) + 1], ot[1], ot[2], a, k, "None")

ConstructFails ==
    /\ Len(args) < MaxNodes
    /\ \E ot \in CtorInputs, a \in ArgsInputs(Existing), k \in KwargsInputs(Existing) :
        NodeInitFails("g", Names[Len(args) + 1], ot[1], ot[2], a, k, "None")

\* a def/use update that also marks the nodes left without users as erased
InstallAndErase(h) ==
    /\ args' = h.args /\ kwargs' = h.kwargs /\ users' = h.users
    /\ erased' = [n \in DOMAIN erased |-> h.users[n] = <<>>]
    /\ UNCHANGED <<graph, name, op, target, type, prev, next>>

Install(h) ==
    /\ args' = h.args /\ kwargs' = h.kwargs /\ users' = h.users
    /\ UNCHANGED <<graph, name, op, target, type, prev, next, erased>>

\* n.args = a
SetArgs ==
    /\ last = Idle
    /\ \E n \in Existing, a \in ArgsInputs(Existing) :
        \E h \in args_setter(Heap, n, a) :
            /\ Uses(h) <= MaxUses
            /\ Install(h)
            /\ last' = Call("args", n, 0, a, kwargs[n], "", StrTarget, h)

\* n.kwargs = k
SetKwargs ==
    /\ last = Idle
    /\ \E n \in Existing, k \in KwargsInputs(Existing) :
        \E h \in kwargs_setter(Heap, n, k) :
            /\ Uses(h) <= MaxUses
            /\ Install(h)
            /\ last' = Call("kwargs", n, 0, args[n], k, "", StrTarget, h)

\* n._update_args_kwargs(a, k)
UpdateArgsKwargs ==
    /\ last = Idle
    /\ \E n \in Existing, a \in ArgsInputs(Existing), k \in KwargsInputs(Existing) :
        \E h \in _update_args_kwargs(Heap, n, a, k) :
            /\ Uses(h) <= MaxUses
            /\ Install(h)
            /\ last' = Call("update", n, 0, a, k, "", StrTarget, h)

\* n.replace_all_uses_with(c)
ReplaceAllUsesWith ==
    /\ last = Idle
    /\ \E n \in Existing, c \in Existing :
        \E h \in replace_all_uses_with(Heap, n, c) :
            /\ Install(h)
            /\ last' = Call("replace", n, c, EmptyArgs, EmptyKwargs, "", StrTarget, h)

\* The single-threaded caller takes the result of the call that ended (its
\* return value or its exception) before it makes the next call.
Return ==
    /\ last # Idle
    /\ last' = Idle
    /\ UNCHANGED <<graph, name, op, target, args, kwargs, users, type, prev, next,
                   erased>>

Next ==
    \/ Construct
    \/ ConstructFails
    \/ SetArgs
    \/ SetKwargs
    \/ UpdateArgsKwargs
    \/ ReplaceAllUsesWith
    \/ Return

Spec == Init /\ [][Next]_vars

\* Construction alone, over every op tag and target kind.
ConstructAny ==
    /\ Len(args) < MaxCtorNodes
    /\ \E ot \in AllCtorInputs, a \in ArgsInputs(Existing), k \in KwargsInputs(Existing) :
        NodeInit("g", Names[Len(args) + 1], ot[1], ot[2], a, k, "None")

ConstructAnyFails ==
    /\ Len(args) < MaxCtorNodes
    /\ \E ot \in AllCtorInputs, a \in ArgsInputs(Existing), k \in KwargsInputs(Existing) :
        NodeInitFails("g", Names[Len(args) + 1], ot[1], ot[2], a, k, "None")

NextCtor ==
    \/ ConstructAny
    \/ ConstructAnyFails
    \/ Return

SpecCtor == Init /\ [][NextCtor]_vars

\* ------------------------------------------------ intrasequence links
\* The links the list operations read and write: L.prev, L.next indexed by
\* node, L.err the exception raised ("" none).
Links == [prev |-> prev, next |-> next, err |-> ""]

\* _remove_from_list that also resets the removed node to a self-loop
remove_and_reset(L, self) ==
    LET p == L.prev[self]
        n == L.next[self]
    IN  [L EXCEPT !.next = [[L.next EXCEPT ![p] = n] EXCEPT ![self] = self],
                  !.prev = [[L.prev EXCEPT ![n] = p] EXCEPT ![self] = self]]

\* Node._remove_from_list: p._next, n._prev = n, p
_remove_from_list(L, self) ==
    LET p == L.prev[self]
        n == L.next[self]
        L1 == [L EXCEPT !.next[p] = n]
    IN  [L1 EXCEPT !.prev[n] = p]

\* prepend with the graph assertion placed after x._remove_from_list()
prepend_asserts_late(L, g, self, x) ==
    LET L1 == _remove_from_list(L, x)
    IN  IF g[self] # g[x] THEN [L1 EXCEPT !.err = "AssertionError"]
        ELSE LET p == L1.prev[self]
                 L2 == [L1 EXCEPT !.next[p] = x]
                 L3 == [L2 EXCEPT !.prev[x] = p]
                 L4 == [L3 EXCEPT !.next[x] = self]
             IN  [L4 EXCEPT !.prev[self] = x]

\* Node.prepend; g is the graph of every node
prepend(L, g, self, x) ==
    IF g[self] # g[x] THEN [L EXCEPT !.err = "AssertionError"]
    ELSE LET L1 == _remove_from_list(L, x)
             p == L1.prev[self]
             L2 == [L1 EXCEPT !.next[p] = x]
             L3 == [L2 EXCEPT !.prev[x] = p]
             L4 == [L3 EXCEPT !.next[x] = self]
         IN  [L4 EXCEPT !.prev[self] = x]

\* Node.append: self._next.prepend(x)
append(L, g, self, x) == prepend(L, g, L.next[self], x)

Graphs == {"g", "h"}

\* A node with no arguments, in either graph
ConstructPlain ==
    /\ Len(args) < MaxListNodes
    /\ \E g \in Graphs :
        NodeInit(g, Names[Len(args) + 1], "call_function", FnTarget,
                 EmptyArgs, EmptyKwargs, "None")

Relink(L) ==
    /\ prev' = L.prev /\ next' = L.next
    /\ UNCHANGED <<graph, name, op, target, args, kwargs, users, type, erased>>

\* s.prepend(x)
Prepend ==
    /\ last = Idle
    /\ \E s \in Existing, x \in Existing :
        LET L == prepend(Links, graph, s, x)
        IN  /\ Relink(L)
            /\ last' = Call("prepend", s, x, EmptyArgs, EmptyKwargs, "", StrTarget,
                            [Heap EXCEPT !.err = L.err])

\* s.append(x)
AppendNode ==
    /\ last = Idle
    /\ \E s \in Existing, x \in Existing :
        LET L == append(Links, graph, s, x)
        IN  /\ Relink(L)
            /\ last' = Call("append", s, x, EmptyArgs, EmptyKwargs, "", StrTarget,
                            [Heap EXCEPT !.err = L.err])

NextList ==
    \/ ConstructPlain
    \/ Prepend
    \/ AppendNode
    \/ Return

SpecList == Init /\ [][NextList]_vars

\* ------------------------------------------------------ map_arg calls
\* Argument trees over the existing nodes E:
\*   (a, [b, 3], {"k": a}), slice(a, None, [b]), {"k": slice(None, b, 3), "j": (a,)},
\*   a, 3, []
MapTrees(E) ==
    {Prim("3"), Lst(<<>>)} \cup {Nd(a) : a \in E} \cup
    UNION {{Tup(<<Nd(a), Lst(<<Nd(b), Prim("3")>>), Dict(<<"k">>, <<Nd(a)>>)>>),
            Slice(Nd(a), NoneArg, Lst(<<Nd(b)>>)),
            Dict(<<"k", "j">>, <<Slice(NoneArg, Nd(b), Prim("3")), Tup(<<Nd(a)>>)>>)} :
           a \in E, b \in E}

\* Functions handed to map_arg: lambda n: n.name, lambda n: n, lambda n: None
\* (what a function without a return statement gives), lambda n: [n], and
\* maybe_replace_node for a pair of nodes.
FnInputs(E) ==
    {[n \in NodeIds |-> Prim(Names[n])], [n \in NodeIds |-> Nd(n)],
     [n \in NodeIds |-> NoneArg], [n \in NodeIds |-> Lst(<<Nd(n)>>)]} \cup
    {maybe_replace_node(a, c) : a \in E, c \in E}

MapCall(a, fn, after) ==
    [Call("map_arg", 0, 0, a, EmptyKwargs, "", StrTarget, Heap) EXCEPT
        !.fn = fn, !.ret = map_arg(a, fn), !.calls = map_arg_calls(a),
        !.after = after]

\* map_arg(a, fn) on a tree no node holds
MapArg ==
    /\ last = Idle
    /\ \E a \in MapTrees(Existing), fn \in FnInputs(Existing) :
        last' = MapCall(a, fn, InputAfter(a, fn))
    /\ UNCHANGED <<graph, name, op, target, args, kwargs, users, type, prev, next,
                   erased>>

\* map_arg(n.args, fn): the tree passed is the object n holds
MapArgOfArgs ==
    /\ last = Idle
    /\ \E n \in Existing, fn \in FnInputs(Existing) :
        /\ args' = [args EXCEPT ![n] = InputAfter(args[n], fn)]
        /\ last' = MapCall(args[n], fn, InputAfter(args[n], fn))
    /\ UNCHANGED <<graph, name, op, target, kwargs, users, type, prev, next, erased>>

\* map_arg(n.kwargs, fn): the tree passed is the object n holds
MapArgOfKwargs ==
    /\ last = Idle
    /\ \E n \in Existing, fn \in FnInputs(Existing) :
        /\ kwargs' = [kwargs EXCEPT ![n] = InputAfter(kwargs[n], fn)]
        /\ last' = MapCall(kwargs[n], fn, InputAfter(kwargs[n], fn))
    /\ UNCHANGED <<graph, name, op, target, args, users, type, prev, next, erased>>

NextMap ==
    \/ Construct
    \/ MapArg
    \/ MapArgOfArgs
    \/ MapArgOfKwargs
    \/ Return

SpecMap == Init /\ [][NextMap]_vars

\* --------------------------------------------- every operation together
\* nodes built when all operations run together
MaxAllNodes == 2

\* (graph, type) pairs handed to the constructor
GraphTypes == {<<"g", "None">>, <<"h", "Tensor">>}

\* Node(graph, name, op, target, args, kwargs, type) in either graph
ConstructIn ==
    /\ Len(args) < MaxAllNodes
    /\ \E gt \in GraphTypes, ot \in CtorInputs,
          a \in ArgsInputs(Existing), k \in KwargsInputs(Existing) :
        NodeInit(gt[1], Names[Len(args) + 1], ot[1], ot[2], a, k, gt[2])

\* x._remove_from_list()
RemoveFromList ==
    /\ last = Idle
    /\ \E x \in Existing :
        LET L == _remove_from_list(Links, x)
        IN  /\ Relink(L)
            /\ last' = Call("remove", x, 0, EmptyArgs, EmptyKwargs, "", StrTarget,
                            [Heap EXCEPT !.err = L.err])

NextAll ==
    \/ ConstructIn
    \/ SetArgs
    \/ SetKwargs
    \/ UpdateArgsKwargs
    \/ ReplaceAllUsesWith
    \/ Prepend
    \/ AppendNode
    \/ RemoveFromList
    \/ MapArgOfArgs
    \/ MapArgOfKwargs
    \/ Return

SpecAll == Init /\ [][NextAll]_vars

\* ------------------------------------------- replacement and back again
\* c.replace_all_uses_with(a) straight after a.replace_all_uses_with(c) has
\* returned, for c that had no users and is not a. The record of the call
\* keeps the heap the first call started on.
ReplaceBack ==
    /\ last.op = "replace" /\ last.err = ""
    /\ last.with # last.self
    /\ last.users[last.with] = <<>>
    /\ \E h \in replace_all_uses_with(Heap, last.with, last.self) :
        /\ Install(h)
        /\ last' = [last EXCEPT !.op = "replace_back", !.err = h.err, !.ret = h.ret]

NextRound ==
    \/ Construct
    \/ SetArgs
    \/ SetKwargs
    \/ ReplaceAllUsesWith
    \/ ReplaceBack
    \/ Return

SpecRound == Init /\ [][NextRound]_vars

\* ------------------------------- replace_all_uses_with, one user at a time
\* The loop of replace_all_uses_with iterating the live users dict
ToProcessLive(snapshot, live) == live

\* to_process = list(self.users), taken once before the loop (line 135)
ToProcess(snapshot, live) == snapshot

\* n.replace_all_uses_with(c) is entered: the snapshot is taken. While the
\* call runs, last.ret is the snapshot and last.calls the users rewritten.
ReplaceBegin ==
    /\ last = Idle
    /\ \E n \in Existing, c \in Existing :
        last' = Call("replacing", n, c, EmptyArgs, EmptyKwargs, "", StrTarget,
                     [Heap EXCEPT !.ret = users[n]])
    /\ UNCHANGED <<graph, name, op, target, args, kwargs, users, type, prev, next,
                   erased>>

\* one iteration of the loop of lines 136-147
ReplaceStep ==
    /\ last.op = "replacing"
    /\ LET to_process == ToProcess(last.ret, users[last.self])
           i == Len(last.calls) + 1
       IN  /\ i <= Len(to_process)
           /\ \E h \in RewriteUse(Heap, to_process[i], last.self, last.with) :
                /\ Install(h)
                /\ last' = IF h.err = ""
                           THEN [last EXCEPT !.calls = Append(@, to_process[i])]
                           ELSE [last EXCEPT !.op = "replaced", !.err = h.err,
                                             !.ret = <<>>]

\* the loop is over: the assertion of line 149, then return to_process
ReplaceEnd ==
    /\ last.op = "replacing"
    /\ Len(last.calls) + 1 > Len(ToProcess(last.ret, users[last.self]))
    /\ last' = IF Len(users[last.self]) = 0
               THEN [last EXCEPT !.op = "replaced"]
               ELSE [last EXCEPT !.op = "replaced", !.err = "AssertionError",
                                 !.ret = <<>>]
    /\ UNCHANGED <<graph, name, op, target, args, kwargs, users, type, prev, next,
                   erased>>

\* The caller takes the result of a call that has ended.
ReturnFromCall ==
    /\ last.op # "replacing"
    /\ Return

NextSteps ==
    \/ Construct
    \/ SetArgs
    \/ SetKwargs
    \/ ReplaceBegin
    \/ ReplaceStep
    \/ ReplaceEnd
    \/ ReturnFromCall

SpecSteps == Init /\ [][NextSteps]_vars

\* The loop has a user left to rewrite: the condition under which ReplaceStep
\* can be taken (RewriteUse always leaves at least one heap).
StepGuard ==
    /\ last.op = "replacing"
    /\ Len(last.calls) < Len(ToProcess(last.ret, users[last.self]))

\* A call that has been entered keeps executing: the code is single-threaded
\* and nothing in the loop blocks. The second condition is WF_vars(ReplaceStep)
\* with the enabling condition of ReplaceStep written out as StepGuard.
SpecStepsLive ==
    /\ SpecSteps
    /\ WF_vars(ReplaceEnd)
    /\ (<>[]StepGuard => []<><<ReplaceStep>>_vars)

\* ------------------------------------ construction and the list methods
\* Nodes built with arguments, then linked and unlinked.
NextLinks ==
    \/ Construct
    \/ Prepend
    \/ AppendNode
    \/ RemoveFromList
    \/ Return

SpecLinks == Init /\ [][NextLinks]_vars

\* ============================================================ properties
\* The Node leaves of an Argument, at any depth.
RECURSIVE NodeLeaves(_)
NodeLeaves(a) ==
    CASE a.k \in {"tuple", "list"} -> UNION {NodeLeaves(a.e[i]) : i \in 1..Len(a.e)}
      [] a.k = "dict" -> UNION {NodeLeaves(a.vals[i]) : i \in 1..Len(a.vals)}
      [] a.k = "slice" ->
            NodeLeaves(a.start) \cup NodeLeaves(a.stop) \cup NodeLeaves(a.step)
      [] a.k = "node" -> {a.n}
      [] OTHER -> {}

\* The defs of node n in the current state and in the state the last call began in.
DefsNow(n) == NodeLeaves(args[n]) \cup NodeLeaves(kwargs[n])
DefsBefore(n) == NodeLeaves(last.args[n]) \cup NodeLeaves(last.kwargs[n])

\* new is old with every leaf A replaced by C and nothing else changed.
RECURSIVE IsSubst(_, _, _, _)
IsSubst(old, new, A, C) ==
    CASE old.k \in {"tuple", "list"} ->
            /\ new.k = old.k
            /\ Len(new.e) = Len(old.e)
            /\ \A i \in 1..Len(old.e) : IsSubst(old.e[i], new.e[i], A, C)
      [] old.k = "dict" ->
            /\ new.k = "dict"
            /\ new.keys = old.keys
            /\ Len(new.vals) = Len(old.vals)
            /\ \A i \in 1..Len(old.vals) : IsSubst(old.vals[i], new.vals[i], A, C)
      [] old.k = "slice" ->
            /\ new.k = "slice"
            /\ IsSubst(old.start, new.start, A, C)
            /\ IsSubst(old.stop, new.stop, A, C)
            /\ IsSubst(old.step, new.step, A, C)
      [] old.k = "node" -> new = (IF old.n = A THEN Nd(C) ELSE old)
      [] OTHER -> new = old

Before == 1..Len(last.users)
Replaced == last.op = "replace"
Mutated == last.op \in {"args", "kwargs", "update"}
UsersBefore(n) == Range(last.users[n])

\* C1: def/use symmetry. In every reachable state, for all nodes A and B, B is
\* in A.users exactly when A is a Node leaf, at any depth, of B.args or B.kwargs.
C1_DefUseSymmetry ==
    \A A \in Existing, B \in Existing :
        (B \in Range(users[A])) <=> (A \in DefsNow(B))

\* C1 witness: a replacement has run on a graph where a node is used by two
\* others and the edges it left are nested inside a list, a slice and a dict.
C1_Witness ==
    /\ Replaced /\ last.err = "" /\ last.with # last.self
    /\ Len(last.ret) = 2
    /\ \E B \in Existing : kwargs[B] # EmptyKwargs /\ last.with \in DefsNow(B)
    /\ \E B \in Existing : args[B] # EmptyArgs /\ last.with \in DefsNow(B)

C3_UsesRewritten ==
    Replaced =>
        \A U \in UsersBefore(last.self) :
            /\ IsSubst(last.args[U], args[U], last.self, last.with)
            /\ IsSubst(last.kwargs[U], kwargs[U], last.self, last.with)

\* C3 witness: a user held the replaced node in its args (tuple and list) and
\* another node in its kwargs (slice and dict), and the replacement is a third.
C3_Witness ==
    /\ Replaced /\ last.with # last.self
    /\ \E U \in UsersBefore(last.self) :
        /\ last.self \in NodeLeaves(last.args[U])
        /\ last.kwargs[U] # EmptyKwargs
        /\ last.self \notin NodeLeaves(last.kwargs[U])
        /\ last.with \notin NodeLeaves(last.kwargs[U])
        /\ args[U] # last.args[U]

\* C4: after A.replace_all_uses_with(C), C.users is, as a set, the union of
\* C.users and A.users before the call.
C4_ReplacementGainsUsers ==
    Replaced =>
        Range(users[last.with]) = UsersBefore(last.with) \cup UsersBefore(last.self)

\* C4 witness: both nodes had users, one of them shared, one of them not.
C4_Witness ==
    /\ Replaced /\ last.with # last.self /\ last.err = ""
    /\ UsersBefore(last.with) \cap UsersBefore(last.self) # {}
    /\ UsersBefore(last.self) \ UsersBefore(last.with) # {}

\* C5: replace_all_uses_with returns the list of the nodes that were in
\* A.users when it was called, each once, in the insertion order of A.users.
C5_ReturnsSnapshot ==
    (Replaced /\ last.err = "") => last.ret = last.users[last.self]

\* C5 witness: two users were returned, and they are users no longer.
C5_Witness ==
    /\ Replaced /\ last.err = ""
    /\ Len(last.ret) = 2
    /\ last.ret[1] > last.ret[2]
    /\ users[last.self] = <<>>

C7_IdempotentReassign ==
    (\/ last.op = "args" /\ last.a = last.args[last.self]
     \/ last.op = "kwargs" /\ last.k = last.kwargs[last.self])
        => users = last.users

\* C7 witness: the reassigned value names a def whose users hold the node
\* first and another node after it.
C7_Witness ==
    /\ last.op = "args" /\ last.a = last.args[last.self]
    /\ \E D \in NodeLeaves(last.a) :
        /\ Len(users[D]) = 2
        /\ users[D][1] = last.self

\* C8 as stated: an argument mutation on N never changes N.users, also when
\* the new value holds N itself as a leaf.
C8_Original == Mutated => users[last.self] = last.users[last.self]

\* C8 amended: an argument mutation on N leaves N.users as it was unless it
\* adds N itself as a leaf or removes the last leaf N (then N is added to, or
\* removed from, its own users).
C8_OwnUsersUnchanged ==
    (Mutated /\ (last.self \in DefsBefore(last.self) <=> last.self \in DefsNow(last.self)))
        => users[last.self] = last.users[last.self]

\* C8 witness: a mutation that changed the defs of a node that has users.
C8_Witness ==
    /\ Mutated
    /\ last.self \notin DefsNow(last.self)
    /\ DefsNow(last.self) # DefsBefore(last.self)
    /\ DefsNow(last.self) # {}
    /\ users[last.self] # <<>>

\* C9: constructing N adds N to D.users for every node D that is a leaf of the
\* initial args or kwargs, and changes no other users set.
C9_ConstructRegisters ==
    (last.op = "init_node" /\ last.err = "") =>
        \A D \in Before :
            users[D] = IF D \in NodeLeaves(last.a) \cup NodeLeaves(last.k)
                       THEN Append(last.users[D], last.self)
                       ELSE last.users[D]

\* C9 witness: the new node names one node in args and another in kwargs.
C9_Witness ==
    /\ last.op = "init_node" /\ last.err = ""
    /\ NodeLeaves(last.a) # {} /\ NodeLeaves(last.k) # {}
    /\ NodeLeaves(last.a) # NodeLeaves(last.k)

\* C10: construction fails exactly when op is none of the seven tags, or op is
\* call_method or call_module and target is not a string; a failed construction
\* leaves every users set (and every args and kwargs) as it was and adds no node.
C10_InvalidConstruction ==
    last.op = "init_node" =>
        /\ (last.err = "AssertionError") <=>
              (\/ last.o \notin {"placeholder", "call_method", "call_module",
                                "call_function", "get_attr", "output", "root"}
               \/ last.o \in {"call_method", "call_module"} /\ ~last.t.isstr)
        /\ last.err # "" =>
              /\ users = last.users /\ args = last.args /\ kwargs = last.kwargs
              /\ last.err = "AssertionError"

\* C10 witness: call_module with a callable target was refused although its
\* args named an existing node.
C10_Witness ==
    /\ last.op = "init_node" /\ last.err = "AssertionError"
    /\ last.o = "call_module" /\ ~last.t.isstr
    /\ NodeLeaves(last.a) # {}

\* ------------------------------------------------------ list properties
\* The nodes a walk over the links nx visits from node start, in order, up
\* to the first node it would visit a second time.
RECURSIVE WalkFrom(_, _, _)
WalkFrom(nx, cur, acc) ==
    IF nx[cur] \in Range(acc) THEN acc
    ELSE WalkFrom(nx, nx[cur], Append(acc, nx[cur]))

ForwardWalk(nx, start) == WalkFrom(nx, start, <<start>>)

\* The walk from start comes back to start.
Returns(nx, start) ==
    LET w == ForwardWalk(nx, start) IN nx[w[Len(w)]] = start

Without(w, x) == SelectSeq(w, LAMBDA y : y # x)

Relinked == last.op \in {"prepend", "append"} /\ last.err = ""

\* C11 as stated: after self.prepend(x), for every self and x of one graph (x
\* in self's sequence, in another one, a singleton, or self), a forward walk
\* from any node of the sequence comes round having visited x once, x is
\* immediately before self, and x is no longer between its former neighbours.
C11_Original ==
    (last.op = "prepend" /\ last.err = "") =>
        LET s == last.self
            x == last.with
        IN  /\ next[x] = s /\ prev[s] = x
            /\ \A m \in Range(ForwardWalk(last.next, s)) \cup {x} :
                  /\ Returns(next, m)
                  /\ x \in Range(ForwardWalk(next, m))
            /\ (x # s /\ last.next[x] \notin {s, x}) =>
                  /\ next[last.prev[x]] = last.next[x]
                  /\ prev[last.next[x]] = last.prev[x]

\* C12 as stated: list integrity. In every state reached by prepend and
\* append calls, n.next.prev = n and n.prev.next = n for every node n, and the
\* walk over next from n comes back to n.
C12_Original ==
    \A n \in Existing :
        /\ prev[next[n]] = n
        /\ next[prev[n]] = n
        /\ Returns(next, n)

\* C13 as stated, for x other than self: after self.append(x), for every x of
\* the same graph (the current successor of self included), self.next = x and
\* x.prev = self, and the former successor of self, when it is not x, follows x.
C13_Original ==
    (last.op = "append" /\ last.err = "" /\ last.with # last.self) =>
        LET s == last.self
            x == last.with
        IN  /\ next[s] = x /\ prev[x] = s
            /\ last.next[s] # x =>
                  (next[x] = last.next[s] /\ prev[last.next[s]] = x)

\* C14 as stated: prepend(x) and append(x) keep the order of all nodes other
\* than x: the walk from any node u other than x visits, x left out, the same
\* nodes in the same order as before the call.
C14_Original ==
    Relinked =>
        \A u \in Existing \ {last.with} :
            Without(ForwardWalk(next, u), last.with) =
                Without(ForwardWalk(last.next, u), last.with)

\* C15: self.prepend(x) with x.graph other than self.graph fails with the
\* cross-graph-move error and every prev and next link is as before the call.
C15_CrossGraphPrepend ==
    (last.op = "prepend" /\ graph[last.self] # graph[last.with]) =>
        /\ last.err = "AssertionError"
        /\ prev = last.prev
        /\ next = last.next

\* C15 witness: the refused node sat between neighbours in its own graph.
C15_Witness ==
    /\ last.op = "prepend" /\ last.err = "AssertionError"
    /\ graph[last.self] # graph[last.with]
    /\ last.next[last.with] # last.with
    /\ last.prev[last.with] # last.with
    /\ next[last.with] = last.next[last.with]

\* --------------------------------------------------- map_arg properties
\* new is old with every Node leaf n replaced by fn[n] and nothing else
\* changed: same container kind, length and keys at every position.
RECURSIVE IsMapped(_, _, _)
IsMapped(old, new, fn) ==
    CASE old.k \in {"tuple", "list"} ->
            /\ new.k = old.k
            /\ Len(new.e) = Len(old.e)
            /\ \A i \in 1..Len(old.e) : IsMapped(old.e[i], new.e[i], fn)
      [] old.k = "dict" ->
            /\ new.k = "dict"
            /\ new.keys = old.keys
            /\ Len(new.vals) = Len(old.vals)
            /\ \A i \in 1..Len(old.vals) : IsMapped(old.vals[i], new.vals[i], fn)
      [] old.k = "slice" ->
            /\ new.k = "slice"
            /\ IsMapped(old.start, new.start, fn)
            /\ IsMapped(old.stop, new.stop, fn)
            /\ IsMapped(old.step, new.step, fn)
      [] old.k = "node" -> new = fn[old.n]
      [] OTHER -> new = old

\* The container kinds that occur in an Argument.
RECURSIVE Kinds(_)
Kinds(a) ==
    {a.k} \cup
    CASE a.k \in {"tuple", "list"} -> UNION {Kinds(a.e[i]) : i \in 1..Len(a.e)}
      [] a.k = "dict" -> UNION {Kinds(a.vals[i]) : i \in 1..Len(a.vals)}
      [] a.k = "slice" -> Kinds(a.start) \cup Kinds(a.stop) \cup Kinds(a.step)
      [] OTHER -> {}

\* C16: traversal shape preservation. map_arg(a, fn) has the shape of a, the
\* same container kind at every position (tuple, list, mapping with the same
\* keys, slice of three fields), every primitive leaf unchanged and every Node
\* leaf n replaced by fn(n).
C16_ShapePreserved ==
    last.op = "map_arg" => IsMapped(last.a, last.ret, last.fn)

\* C16 witness: a mapping holding a slice and a tuple was mapped by
\* lambda n: n.name and the result differs from the input.
C16_Witness ==
    /\ last.op = "map_arg"
    /\ {"dict", "slice", "tuple", "node", "prim"} \subseteq Kinds(last.a)
    /\ last.fn = [n \in NodeIds |-> Prim(Names[n])]
    /\ "node" \notin Kinds(last.ret)

RECURSIVE SumSeq(_)
SumSeq(ns) == IF ns = <<>> THEN 0 ELSE Head(ns) + SumSeq(Tail(ns))

\* The number of positions of Argument a that hold node D.
RECURSIVE Occurrences(_, _)
Occurrences(a, D) ==
    CASE a.k \in {"tuple", "list"} ->
            SumSeq([i \in 1..Len(a.e) |-> Occurrences(a.e[i], D)])
      [] a.k = "dict" ->
            SumSeq([i \in 1..Len(a.vals) |-> Occurrences(a.vals[i], D)])
      [] a.k = "slice" ->
            Occurrences(a.start, D) + Occurrences(a.stop, D) + Occurrences(a.step, D)
      [] a.k = "node" -> IF a.n = D THEN 1 ELSE 0
      [] OTHER -> 0

OccNow(U, D) == Occurrences(args[U], D) + Occurrences(kwargs[U], D)
OccBefore(U, D) == Occurrences(last.args[U], D) + Occurrences(last.kwargs[U], D)
Times(u, x) == Len(SelectSeq(u, LAMBDA y : y = x))

\* C18: a user is recorded once per def whatever the number of references. If
\* U references D at k >= 1 positions, U occurs exactly once in D.users (and
\* not at all for k = 0); after an argument mutation of U that removes some
\* occurrences of D and keeps others U is still in D.users, and U is out of
\* D.users once the last occurrence is removed.
C18_OncePerDef ==
    /\ \A D \in Existing, U \in Existing :
          Times(users[D], U) = IF OccNow(U, D) >= 1 THEN 1 ELSE 0
    /\ Mutated =>
          \A D \in Existing :
              /\ (OccBefore(last.self, D) >= 1 /\ OccNow(last.self, D) >= 1)
                    => last.self \in Range(users[D])
              /\ (OccBefore(last.self, D) >= 1 /\ OccNow(last.self, D) = 0)
                    => last.self \notin Range(users[D])

\* C18 witness: a mutation took away two of the four occurrences of a def.
C18_Witness ==
    /\ Mutated
    /\ \E D \in Existing :
        /\ OccBefore(last.self, D) = 4
        /\ OccNow(last.self, D) = 2
        /\ Times(users[D], last.self) = 1

\* C19: graph, name, op, target, type and erased are constant after
\* construction. No step of the argument setters, _update_args_kwargs,
\* replace_all_uses_with, prepend, append, _remove_from_list or map_arg changes
\* any node's graph, name, op, target, type or erased; only a construction
\* extends them, with the fields of the new node.
C19_FieldsConstant ==
    [][/\ last'.op # "init_node" =>
            UNCHANGED <<graph, name, op, target, type, erased>>
       /\ \A n \in Existing :
            /\ graph'[n] = graph[n] /\ name'[n] = name[n] /\ op'[n] = op[n]
            /\ target'[n] = target[n] /\ type'[n] = type[n]
            /\ erased'[n] = erased[n]]_vars

\* C19 witness: a node of graph "h" built as a call_function of type Tensor has
\* had its arguments replaced by replace_all_uses_with and is still what the
\* constructor made it.
C19_Witness ==
    /\ Replaced
    /\ \E n \in Range(last.ret) :
        /\ args[n] # last.args[n]
        /\ graph[n] = "h" /\ op[n] = "call_function" /\ type[n] = "Tensor"
        /\ ~erased[n]
        /\ users[last.self] = <<>>

\* C20: N._update_args_kwargs(new_args, new_kwargs) installs both values and
\* makes the exact difference of the reverse edges: N leaves D.users for the
\* nodes D that were leaves of the old trees and are not of the new ones, N
\* joins D.users for the nodes D that are leaves of the new trees and were not
\* of the old ones, and every other users set is as it was.
C20_ExactDiff ==
    Mutated =>
        LET N == last.self
            old == DefsBefore(N)
            new == NodeLeaves(last.a) \cup NodeLeaves(last.k)
        IN  /\ last.err = ""
            /\ args[N] = last.a /\ kwargs[N] = last.k
            /\ \A D \in Existing :
                  users[D] = IF D \in old \ new THEN Without(last.users[D], N)
                             ELSE IF D \in new \ old THEN Append(last.users[D], N)
                             ELSE last.users[D]

\* C20 witness: the call dropped one def that keeps another user, added one
\* and kept one.
C20_Witness ==
    /\ last.op = "update"
    /\ \E D \in DefsBefore(last.self) \ DefsNow(last.self) : users[D] # <<>>
    /\ DefsNow(last.self) \ DefsBefore(last.self) # {}
    /\ DefsNow(last.self) \cap DefsBefore(last.self) # {}

\* The users dicts left when the additions of N._update_args_kwargs run
\* before its removals, from the heap the call started on.
AddsFirst(N, rem, add) ==
    [D \in Before |->
        LET added == IF D \in add /\ N \notin Range(last.users[D])
                     THEN last.users[D] \o <<N>> ELSE last.users[D]
        IN  IF D \in rem THEN Without(added, N) ELSE added]

\* C21: in _update_args_kwargs the defs to remove (old minus new) and the defs
\* to add (new minus old) are disjoint, and running the additions before the
\* removals gives the same users dicts, in membership and in order, as the
\* code's removals first.
C21_OrderInsignificant ==
    Mutated =>
        LET N == last.self
            old == DefsBefore(N)
            new == NodeLeaves(last.a) \cup NodeLeaves(last.k)
        IN  /\ (old \ new) \cap (new \ old) = {}
            /\ users = AddsFirst(N, old \ new, new \ old)

\* C21 witness: the call removed a def and added one, and kept a def whose
\* users hold the mutated node before another user.
C21_Witness ==
    /\ Mutated
    /\ DefsBefore(last.self) \ DefsNow(last.self) # {}
    /\ DefsNow(last.self) \ DefsBefore(last.self) # {}
    /\ \E D \in DefsNow(last.self) \cap DefsBefore(last.self) :
          Len(users[D]) >= 2 /\ users[D][1] = last.self

\* ------------------------------------------------- map_arg, continued
\* The number of Node leaf occurrences of Argument a.
LeafCount(a) == SumSeq([d \in 1..MaxNodes |-> Occurrences(a, d)])

\* The leaves before child i of the children cs.
RECURSIVE LeavesBefore(_, _)
LeavesBefore(cs, i) ==
    IF i <= 1 THEN 0 ELSE LeavesBefore(cs, i - 1) + LeafCount(cs[i - 1])

\* calls is the depth-first walk of the children cs, one after the other.
RECURSIVE IsTraversal(_, _)
WalksChildren(cs, calls) ==
    /\ Len(calls) = LeavesBefore(cs, Len(cs) + 1)
    /\ \A i \in 1..Len(cs) :
          IsTraversal(cs[i], SubSeq(calls, LeavesBefore(cs, i) + 1,
                                    LeavesBefore(cs, i + 1)))

\* calls is the sequence of nodes met walking a depth first: elements by
\* position, dict values in key order, slice fields as start, stop, step.
IsTraversal(a, calls) ==
    CASE a.k \in {"tuple", "list"} -> WalksChildren(a.e, calls)
      [] a.k = "dict" -> WalksChildren(a.vals, calls)
      [] a.k = "slice" -> WalksChildren(<<a.start, a.stop, a.step>>, calls)
      [] a.k = "node" -> calls = <<a.n>>
      [] OTHER -> calls = <<>>

\* C22: map_arg calls fn once per Node leaf occurrence, a node occurring k
\* times being passed k times, and in a fixed depth-first order: elements of a
\* sequence by position, values of a mapping in its key order, the fields of a
\* slice as start, stop, step.
C22_CallsInOrder ==
    last.op = "map_arg" =>
        /\ \A D \in NodeIds : Times(last.calls, D) = Occurrences(last.a, D)
        /\ IsTraversal(last.a, last.calls)

\* C22 witness: a tuple holding a list and a dict in which one node occurs
\* twice and another node lies between the two occurrences.
C22_Witness ==
    /\ last.op = "map_arg"
    /\ {"tuple", "dict", "list", "node"} \subseteq Kinds(last.a)
    /\ \E D \in NodeIds, E \in NodeIds :
        /\ D # E
        /\ Times(last.calls, D) = 2
        /\ \E i, j, l \in 1..Len(last.calls) :
              i < j /\ j < l /\ last.calls[i] = D /\ last.calls[j] = E
                /\ last.calls[l] = D

\* ---------------------------------------------- construction, continued
\* C23: a freshly constructed node is a detached singleton with no users. Its
\* prev and next are the node itself, its users dict is empty and erased is
\* false, whatever args and kwargs it was given.
C23_FreshSingleton ==
    (last.op = "init_node" /\ last.err = "") =>
        LET N == last.self
        IN  /\ N = Len(args) /\ N \notin Before
            /\ prev[N] = N /\ next[N] = N
            /\ users[N] = <<>>
            /\ erased[N] = FALSE

\* C23 witness: a node was built with node leaves in args and in kwargs while
\* an older node is not a singleton.
C23_Witness ==
    /\ last.op = "init_node" /\ last.err = ""
    /\ NodeLeaves(last.a) # {} /\ NodeLeaves(last.k) # {}
    /\ \E m \in Before : next[m] # m \/ prev[m] # m

\* ------------------------------------------------ list links, continued
\* C30: x._remove_from_list() on a node that is the sole member of its
\* sequence leaves it a self-loop; on a node with other members it links the
\* former predecessor and successor to each other and leaves x's own prev and
\* next at its former neighbours. No other link changes.
C30_RemoveFromList ==
    last.op = "remove" =>
        LET x == last.self
            p == last.prev[x]
            n == last.next[x]
        IN  /\ last.err = ""
            /\ (p = x /\ n = x) => (prev[x] = x /\ next[x] = x)
            /\ (p # x \/ n # x) =>
                  /\ next[p] = n /\ prev[n] = p
                  /\ prev[x] = p /\ next[x] = n
            /\ \A m \in Existing \ {p} : next[m] = last.next[m]
            /\ \A m \in Existing \ {n} : prev[m] = last.prev[m]

\* C30 witness: x stood between two other nodes p and n, which are now
\* neighbours, and x still points at both.
C30_Witness ==
    /\ last.op = "remove"
    /\ LET x == last.self
           p == last.prev[x]
           n == last.next[x]
       IN  /\ p # x /\ n # x /\ p # n
           /\ last.next[p] = x /\ last.prev[n] = x
           /\ next[p] = n /\ prev[n] = p
           /\ prev[x] = p /\ next[x] = n

\* --------------------------------------------- replacement, continued
\* C25: A.replace_all_uses_with(C) changes only what the replacement needs.
\* The args and kwargs of every node that was not in A.users are unchanged, and
\* the users of every node other than A and C are unchanged.
C25_ReplaceFrame ==
    Replaced =>
        /\ \A n \in Existing \ UsersBefore(last.self) :
              args[n] = last.args[n] /\ kwargs[n] = last.kwargs[n]
        /\ \A n \in Existing \ {last.self, last.with} :
              users[n] = last.users[n]

\* C25 witness: a replacement rewrote a user while a third node has users and
\* a node outside A.users holds node leaves.
C25_Witness ==
    /\ Replaced /\ last.err = "" /\ last.with # last.self
    /\ last.ret # <<>>
    /\ \E n \in Existing \ {last.self, last.with} : users[n] # <<>>
    /\ \E n \in Existing \ UsersBefore(last.self) : DefsNow(n) # {}

\* C26: users keeps insertion order across replacement. After
\* A.replace_all_uses_with(C) with C other than A, C.users is what it was
\* before the call, in that order, followed by the previous users of A that
\* were not users of C, in the order they had in A.users.
C26_UsersOrder ==
    (Replaced /\ last.with # last.self) =>
        /\ last.err = ""
        /\ users[last.with] =
              last.users[last.with] \o
              SelectSeq(last.users[last.self],
                        LAMBDA u : u \notin Range(last.users[last.with]))

\* C26 witness: C had a user and gained two from A.
C26_Witness ==
    /\ Replaced /\ last.with # last.self
    /\ Len(last.users[last.with]) >= 1
    /\ Len(users[last.with]) >= Len(last.users[last.with]) + 2

\* C28: users.pop(self) in _update_args_kwargs never fails for a missing key.
\* No call of construction, the setters, _update_args_kwargs or
\* replace_all_uses_with ends in KeyError, and in every reachable state in
\* which a call can start every _update_args_kwargs call that can be made
\* finds the mutating node in the users of each def it removes.
C28_PopNeverFails ==
    /\ last.err # "KeyError"
    /\ last = Idle =>
          \A n \in Existing, a \in ArgsInputs(Existing), k \in KwargsInputs(Existing) :
              \A h \in _update_args_kwargs(Heap, n, a, k) : h.err = ""

\* C28 witness: a mutation popped the node from the users of two defs.
C28_Witness ==
    /\ Mutated /\ last.err = ""
    /\ Cardinality(DefsBefore(last.self) \ DefsNow(last.self)) >= 2

\* C29: A.replace_all_uses_with(A) on a node with at least one user ends in
\* the assertion failure of line 149 with the args, kwargs and users of every
\* node as before the call; on a node with no users it returns an empty list
\* and changes nothing.
C29_SelfReplace ==
    (Replaced /\ last.with = last.self) =>
        /\ args = last.args /\ kwargs = last.kwargs /\ users = last.users
        /\ IF last.users[last.self] # <<>>
           THEN last.err = "AssertionError"
           ELSE last.err = "" /\ last.ret = <<>>

\* C29 witness: the node replaced by itself had two users.
C29_Witness ==
    /\ Replaced /\ last.with = last.self
    /\ Len(last.users[last.self]) >= 2
    /\ last.err = "AssertionError"

\* C27: replacement round trip. When C has no users and C is not A,
\* A.replace_all_uses_with(C) followed by C.replace_all_uses_with(A) gives
\* back the args and kwargs of every node and the users of every node, in
\* membership and in order, as they were before the first call.
C27_RoundTrip ==
    last.op = "replace_back" =>
        /\ last.err = ""
        /\ args = last.args /\ kwargs = last.kwargs /\ users = last.users

\* C27 witness: the round trip ran on a node with two users, one of them the
\* replacement itself, the node being held in a list and in a slice.
C27_Witness ==
    /\ last.op = "replace_back"
    /\ Len(users[last.self]) >= 2
    /\ last.with \in Range(users[last.self])
    /\ last.ret = users[last.self]
    /\ \E n \in Range(users[last.self]) :
          {"list", "slice"} \subseteq Kinds(args[n]) \cup Kinds(kwargs[n])

\* C24: replace_all_uses_with always terminates. A call that has been entered
\* ends; it rewrites each node of the snapshot of self.users exactly once, in
\* the snapshot's order, and then stops; and while it runs with a replacement
\* other than self no node joins self.users, also when the replacement is one
\* of the users being rewritten.
C24_Terminates ==
    /\ [](last.op \in {"replacing", "replaced"} =>
            /\ Len(last.calls) <= Len(last.users[last.self])
            /\ last.calls = SubSeq(last.users[last.self], 1, Len(last.calls))
            /\ last.with # last.self =>
                  users[last.self] =
                    SubSeq(last.users[last.self], Len(last.calls) + 1,
                           Len(last.users[last.self])))
    /\ [](last.op = "replaced" => last.calls = last.users[last.self])
    /\ (last.op = "replacing") ~> (last.op = "replaced")

\* C24 witness: a call has ended that rewrote two users, the replacement
\* being one of them.
C24_Witness ==
    /\ last.op = "replaced" /\ last.err = ""
    /\ last.with # last.self
    /\ Len(last.calls) >= 2
    /\ last.with \in Range(last.calls)

====
